---- MODULE Spec2Model ----
(***************************************************************************)
(* A model of the polling file watcher (package fswatcher): the registry   *)
(* of tracked paths, one polling cycle (tick), the blocking sends on the   *)
(* unbuffered Events and Errors channels, and shutdown through Close.      *)
(*                                                                         *)
(* The filesystem is the environment: what Lstat, Readlink and Stat report *)
(* for a path in one cycle is drawn from a bounded set, so any sequence of *)
(* filesystem changes between two observations of a path is covered.       *)
(***************************************************************************)
EXTENDS Integers, Sequences, FiniteSets, TLC

(***************************************************************************)
(* Bounds of the model.                                                    *)
(***************************************************************************)
\* file sizes range over 0..MaxSize
MaxSize == 1
\* modification times range over 1..MaxMTime
MaxMTime == 2

(***************************************************************************)
(* Op: a bitmask over Create, Write, Remove (1 << iota).                   *)
(***************************************************************************)
Create == 1
Write == 2
Remove == 4

RECURSIVE BitOr(_, _)
BitOr(a, b) ==
    IF a = 0 THEN b
    ELSE IF b = 0 THEN a
    ELSE (IF a % 2 = 1 \/ b % 2 = 1 THEN 1 ELSE 0) + 2 * BitOr(a \div 2, b \div 2)

RECURSIVE BitAnd(_, _)
BitAnd(a, b) ==
    IF a = 0 \/ b = 0 THEN 0
    ELSE (IF a % 2 = 1 /\ b % 2 = 1 THEN 1 ELSE 0) + 2 * BitAnd(a \div 2, b \div 2)

\* func (o Op) Has(h Op) bool { return o&h != 0 }
Has(o, h) == BitAnd(o, h) # 0

(***************************************************************************)
(* Paths.  A path is its directory and its base name; a relative path has  *)
(* an empty directory.                                                     *)
(***************************************************************************)
MkPath(d, b) == [dir |-> d, base |-> b]
EmptyPath == MkPath("", "")
IsAbs(p) == p.dir # ""
Dir(p) == p.dir
Join(d, p) == MkPath(d, p.base)

\* the two paths handed to New: PathF is only ever absent or a regular
\* file, PathS may also be a symlink
PathF == MkPath("/d", "f")
PathS == MkPath("/d", "s")
LinkPaths == {PathS}
\* the argument lists New is called with (a duplicate included)
InputLists == {<<PathF, PathS>>, <<PathS, PathS>>}
\* what Readlink may return: relative and absolute link texts
LinkTexts == {MkPath("", "a"), MkPath("/d", "b")}

(***************************************************************************)
(* os.FileInfo, as far as the watcher reads it; nil is NoInfo.             *)
(***************************************************************************)
NoInfo == [exists |-> FALSE, link |-> FALSE, size |-> 0, mtime |-> 0]
FileInfos ==
    {[exists |-> TRUE, link |-> FALSE, size |-> s, mtime |-> m] :
        s \in 0..MaxSize, m \in 1..MaxMTime}
\* the symlinks: their size is the length of the link text, and they are
\* all taken to be made at time 1
LinkInfos ==
    {[exists |-> TRUE, link |-> TRUE, size |-> s, mtime |-> 1] :
        s \in 1..MaxSize}

(***************************************************************************)
(* Errors of the os package.  Lstat, Readlink and Stat report a failure as *)
(* a *fs.PathError wrapping the errno.                                     *)
(***************************************************************************)
NoErr == [type |-> "nil", errno |-> ""]
PathErr(e) == [type |-> "PathError", errno |-> e]
IsNotExist(err) == err.type # "nil" /\ err.errno = "ENOENT"
IsPathError(err) == err.type = "PathError"

(***************************************************************************)
(* The registry entry (type state) and the messages of the two channels.   *)
(***************************************************************************)
State(p, i, t, ti) == [path |-> p, info |-> i, target |-> t, targetInfo |-> ti]
EmptyState(p) == State(p, NoInfo, EmptyPath, NoInfo)

Event(n, o) == [chan |-> "Events", name |-> n, op |-> o, err |-> NoErr]
Error(n, e) == [chan |-> "Errors", name |-> n, op |-> 0, err |-> e]

(***************************************************************************)
(* What the three system calls of one iteration report.  A call the        *)
(* iteration does not reach is recorded as NoCall.                         *)
(***************************************************************************)
Result(i, t, e) == [info |-> i, text |-> t, err |-> e]
NoCall == Result(NoInfo, EmptyPath, NoErr)
Sys(l, r, s) == [lstat |-> l, readlink |-> r, stat |-> s]

\* errno values a failing call reports
Errnos == {"ENOENT", "EACCES"}

\* os.Stat(target): follows symlinks, so it never reports a symlink
StatResults ==
    {Result(i, EmptyPath, NoErr) : i \in FileInfos}
        \cup {Result(NoInfo, EmptyPath, PathErr(e)) : e \in Errnos}

\* os.Readlink(path)
ReadlinkResults ==
    {Result(NoInfo, t, NoErr) : t \in LinkTexts}
        \cup {Result(NoInfo, EmptyPath, PathErr("EACCES"))}

\* everything one iteration can be told about path p
Observations(p) ==
    {Sys(Result(NoInfo, EmptyPath, PathErr(e)), NoCall, NoCall) : e \in Errnos}
        \cup {Sys(Result(i, EmptyPath, NoErr), NoCall, NoCall) : i \in FileInfos}
        \cup (IF p \in LinkPaths
              THEN {Sys(Result(i, EmptyPath, NoErr), r, NoCall) :
                        i \in LinkInfos,
                        r \in {x \in ReadlinkResults : x.err # NoErr}}
                   \cup {Sys(Result(i, EmptyPath, NoErr), r, s) :
                        i \in LinkInfos,
                        r \in {x \in ReadlinkResults : x.err = NoErr},
                        s \in StatResults}
              ELSE {})

(***************************************************************************)
(* One iteration of tick's loop over the registry, as a function of the    *)
(* entry (oldState) and of what the system calls report.  The result is    *)
(* the sends the iteration makes, in order, whether it reaches an          *)
(* assignment to w.tracked, and the newState it assigns.                   *)
(***************************************************************************)
Outcome(sends, store, newState) ==
    [sends |-> sends, store |-> store, newState |-> newState]

\* mutant: op starts empty instead of as Create
CreateOpZero(info) == IF info.size > 0 THEN Write ELSE 0

\* mutant: Write is never or-ed in
CreateOpBare(info) == Create

\* op := Create; if info.Size() > 0 { op |= Write }
CreateOp(info) == IF info.size > 0 THEN BitOr(Create, Write) ELSE Create

\* mutant: the entry of a deleted path is not cleared
NotExistBranchKeep(oldState, newState) ==
    IF oldState.info.exists
    THEN Outcome(<<Event(oldState.path, Remove)>>, FALSE, newState)
    ELSE Outcome(<<>>, FALSE, newState)

\* if os.IsNotExist(err) { ... continue }
NotExistBranch(oldState, newState) ==
    IF oldState.info.exists
    THEN Outcome(<<Event(oldState.path, Remove)>>, TRUE, newState)
    ELSE Outcome(<<>>, FALSE, newState)

\* if !filepath.IsAbs(target) { target = filepath.Join(filepath.Dir(path), target) }
ResolveTarget(path, text) ==
    IF ~IsAbs(text) THEN Join(Dir(path), text) ELSE text

\* mutant: Remove is sent whether or not the target was there before
TargetStatSendsAlways(oldState, err) ==
    IF IsPathError(err)
    THEN <<Event(oldState.path, Remove)>>
    ELSE IF err # NoErr
    THEN <<Error(oldState.path, err)>>
    ELSE <<>>

\* the handling of os.Stat's error
TargetStatSends(oldState, err) ==
    IF IsPathError(err)
    THEN IF oldState.targetInfo.exists
         THEN <<Event(oldState.path, Remove)>>
         ELSE <<>>
    ELSE IF err # NoErr
    THEN <<Error(oldState.path, err)>>
    ELSE <<>>

\* mutant: the event carries the resolved target
SymlinkEventNameTarget(path, target) == target

\* the name an event about a symlink carries
SymlinkEventName(path, target) == path

\* mutant: the target path is not compared
TargetChangedInfoOnly(oldState, target, targetInfo) ==
    \/ oldState.targetInfo.size # targetInfo.size
    \/ oldState.targetInfo.mtime # targetInfo.mtime

\* mutant: the modification time is not compared
TargetChangedNoMTime(oldState, target, targetInfo) ==
    \/ oldState.target # target
    \/ oldState.targetInfo.size # targetInfo.size

\* the comparison of the stored target with the one seen now
TargetChanged(oldState, target, targetInfo) ==
    \/ oldState.target # target
    \/ oldState.targetInfo.size # targetInfo.size
    \/ oldState.targetInfo.mtime # targetInfo.mtime

\* mutant: every cause of a change is reported by an event of its own
TargetDiffSendsSplit(oldState, target, targetInfo) ==
    IF ~oldState.targetInfo.exists
    THEN IF targetInfo.exists
         THEN <<Event(oldState.path, CreateOp(targetInfo))>>
         ELSE <<>>
    ELSE IF targetInfo.exists
    THEN (IF oldState.target # target
          THEN <<Event(oldState.path, Write)>> ELSE <<>>)
         \o (IF \/ oldState.targetInfo.size # targetInfo.size
                \/ oldState.targetInfo.mtime # targetInfo.mtime
             THEN <<Event(oldState.path, Write)>> ELSE <<>>)
    ELSE <<>>

\* mutant: another target is reported as a removal and a creation
TargetDiffSendsRemoveCreate(oldState, target, targetInfo) ==
    IF ~oldState.targetInfo.exists
    THEN IF targetInfo.exists
         THEN <<Event(oldState.path, CreateOp(targetInfo))>>
         ELSE <<>>
    ELSE IF targetInfo.exists /\ oldState.target # target
    THEN <<Event(oldState.path, Remove),
           Event(oldState.path, CreateOp(targetInfo))>>
    ELSE IF targetInfo.exists /\ TargetChanged(oldState, target, targetInfo)
    THEN <<Event(oldState.path, Write)>>
    ELSE <<>>

\* if oldState.targetInfo == nil { ... } else { ... }
TargetDiffSends(oldState, target, targetInfo) ==
    IF ~oldState.targetInfo.exists
    THEN IF targetInfo.exists
         THEN <<Event(SymlinkEventName(oldState.path, target), CreateOp(targetInfo))>>
         ELSE <<>>
    ELSE IF targetInfo.exists /\ TargetChanged(oldState, target, targetInfo)
    THEN <<Event(SymlinkEventName(oldState.path, target), Write)>>
    ELSE <<>>

\* mutant: the resolved target is not kept in newState
SymlinkBranchNoTarget(oldState, newState, text, st) ==
    LET target == ResolveTarget(oldState.path, text)
    IN Outcome(TargetStatSends(oldState, st.err)
                   \o TargetDiffSends(oldState, target, st.info),
               TRUE,
               [newState EXCEPT !.targetInfo = st.info])

\* the symlink branch, from the resolution of the target on
SymlinkBranch(oldState, newState, text, st) ==
    LET target == ResolveTarget(oldState.path, text)
    IN Outcome(TargetStatSends(oldState, st.err)
                   \o TargetDiffSends(oldState, target, st.info),
               TRUE,
               [newState EXCEPT !.target = target, !.targetInfo = st.info])

\* mutant: the size is not compared
FileSendsMTimeOnly(oldState, info) ==
    IF ~oldState.info.exists
    THEN <<Event(oldState.path, CreateOp(info))>>
    ELSE IF info.mtime # oldState.info.mtime
    THEN <<Event(oldState.path, Write)>>
    ELSE <<>>

\* the branch for a path that is not a symlink
FileSends(oldState, info) ==
    IF ~oldState.info.exists
    THEN <<Event(oldState.path, CreateOp(info))>>
    ELSE IF info.mtime # oldState.info.mtime \/ info.size # oldState.info.size
    THEN <<Event(oldState.path, Write)>>
    ELSE <<>>

\* mutant: newState starts as a copy of oldState
NewStateCopy(oldState, info) == [oldState EXCEPT !.info = info]

\* newState := state{path: oldState.path}; newState.info = info
NewStateFor(oldState, info) == [EmptyState(oldState.path) EXCEPT !.info = info]

\* mutant: the iteration goes on to the assignment to w.tracked
LstatErrorBranchStore(oldState, newState, err) ==
    Outcome(<<Error(oldState.path, err)>>, TRUE, newState)

\* if err != nil { w.sendError(err); continue }
LstatErrorBranch(oldState, newState, err) ==
    Outcome(<<Error(oldState.path, err)>>, FALSE, newState)

\* mutant: the iteration goes on to the assignment to w.tracked
ReadlinkErrorBranchStore(oldState, newState) == Outcome(<<>>, TRUE, newState)

\* target, err := os.Readlink(oldState.path); if err != nil { continue }
ReadlinkErrorBranch(oldState, newState) == Outcome(<<>>, FALSE, newState)

TickPath(oldState, sys) ==
    LET info == sys.lstat.info
        err == sys.lstat.err
        newState == NewStateFor(oldState, info)
    IN IF IsNotExist(err) THEN NotExistBranch(oldState, newState)
       ELSE IF err # NoErr
       THEN LstatErrorBranch(oldState, newState, err)
       ELSE IF info.exists /\ info.link
       THEN IF sys.readlink.err # NoErr
            THEN ReadlinkErrorBranch(oldState, newState)
            ELSE SymlinkBranch(oldState, newState, sys.readlink.text, sys.stat)
       ELSE Outcome(FileSends(oldState, info), TRUE, newState)

(***************************************************************************)
(* The state of a watcher, of its background goroutine and of the caller.  *)
(***************************************************************************)
VARIABLES
    trackedFiles,  \* the argument of New
    tracked,       \* w.tracked: the registry, path -> state
    stopClosed,    \* whether w.stop has been closed
    wg,            \* w.wg: 1 while loop() runs
    pc,            \* where the goroutine running loop() is
    todo,          \* the entries the range of tick() has yet to visit
    frame,         \* the locals of the iteration of tick() under way
    closePc,       \* where the caller of Close() is
    history,       \* per path, the events handed to sendEvent so far
    emitted,       \* per path, how many of them in the cycle under way
    quiet,         \* no message has been received by the consumer yet
    closedInSend   \* Close() was called while loop() was blocked in a send

vars ==
    <<trackedFiles, tracked, stopClosed, wg, pc, todo, frame, closePc,
      history, emitted, quiet, closedInSend>>

Range(seq) == {seq[i] : i \in DOMAIN seq}

\* no iteration under way
NoFrame ==
    [oldState |-> EmptyState(EmptyPath), sys |-> Sys(NoCall, NoCall, NoCall),
     newState |-> EmptyState(EmptyPath), sends |-> <<>>, store |-> FALSE,
     idx |-> 0, fate |-> "none"]

\* the message the goroutine is blocked sending
Pending == frame.sends[frame.idx]

(***************************************************************************)
(* The events of one path so far, reduced to what the ordering rules need: *)
(* "C" when the last event carrying Create or Remove carried Create, "R"   *)
(* when it carried Remove, "none" when there was none.  An event that      *)
(* carries Write alone leaves it as it is.                                 *)
(***************************************************************************)
HistoryAfter(h, op) ==
    IF Has(op, Create) THEN "C"
    ELSE IF Has(op, Remove) THEN "R"
    ELSE h

Record(h, m) ==
    IF m.chan = "Events"
    THEN [h EXCEPT ![m.name] = HistoryAfter(h[m.name], m.op)]
    ELSE h

Count(e, m) ==
    IF m.chan = "Events" THEN [e EXCEPT ![m.name] = e[m.name] + 1] ELSE e

(***************************************************************************)
(* New: the registry gets one empty entry per distinct path, and the       *)
(* goroutine is started.                                                   *)
(***************************************************************************)
\* mutant: only the first path gets an entry
NewTrackedFirst(files) == [f \in {files[1]} |-> EmptyState(f)]

\* tracked[f] = state{path: f} for every f of trackedFiles
NewTracked(files) == [f \in Range(files) |-> EmptyState(f)]

Init ==
    /\ trackedFiles \in InputLists
    /\ tracked = NewTracked(trackedFiles)
    /\ stopClosed = FALSE
    /\ wg = 1
    /\ pc = "select"
    /\ todo = {}
    /\ frame = NoFrame
    /\ closePc = "idle"
    /\ history = [f \in Range(trackedFiles) |-> "none"]
    /\ emitted = [f \in Range(trackedFiles) |-> 0]
    /\ quiet = TRUE
    /\ closedInSend = FALSE

(***************************************************************************)
(* loop(): select { case <-w.ticker: w.tick(); case <-w.stop: return }     *)
(***************************************************************************)
\* case <-w.ticker: tick() starts ranging over the registry
TickStart ==
    /\ pc = "select"
    /\ pc' = "range"
    /\ todo' = DOMAIN tracked
    /\ UNCHANGED <<trackedFiles, tracked, stopClosed, wg, frame, closePc,
                   history, emitted, quiet, closedInSend>>

\* case <-w.stop: return, and the deferred w.wg.Done()
\* mutant: the select of loop() has no stop case
LoopStopNever == FALSE

\* the stop case of the select of loop() is ready
LoopStopReady == stopClosed

LoopStop ==
    /\ pc = "select"
    /\ LoopStopReady
    /\ pc' = "done"
    /\ wg' = wg - 1
    /\ UNCHANGED <<trackedFiles, tracked, stopClosed, todo, frame, closePc,
                   history, emitted, quiet, closedInSend>>

(***************************************************************************)
(* tick(): the iteration for one entry.  The system calls come first; the  *)
(* sends follow one at a time, each blocking; the assignment to w.tracked  *)
(* is last.                                                                *)
(***************************************************************************)
\* where the goroutine goes once the send at position i has returned
AfterSend(i) ==
    IF i < Len(frame.sends) THEN "send" ELSE "store"

Stat(p) ==
    /\ pc = "range"
    /\ p \in todo
    /\ \E sys \in Observations(p) :
          LET out == TickPath(tracked[p], sys)
          IN /\ frame' = [oldState |-> tracked[p], sys |-> sys,
                          newState |-> out.newState, sends |-> out.sends,
                          store |-> out.store,
                          idx |-> IF out.sends = <<>> THEN 0 ELSE 1,
                          fate |-> "none"]
             /\ pc' = IF out.sends = <<>> THEN "store" ELSE "send"
    /\ todo' = todo \ {p}
    /\ UNCHANGED <<trackedFiles, tracked, stopClosed, wg, closePc, history,
                   emitted, quiet, closedInSend>>

\* select { case w.Events <- e: ... }: the consumer receives the message
Receive(chan) ==
    /\ pc = "send"
    /\ Pending.chan = chan
    /\ history' = Record(history, Pending)
    /\ emitted' = Count(emitted, Pending)
    /\ frame' = [frame EXCEPT !.idx = frame.idx + 1, !.fate = "received"]
    /\ pc' = AfterSend(frame.idx)
    /\ quiet' = FALSE
    /\ UNCHANGED <<trackedFiles, tracked, stopClosed, wg, todo, closePc,
                   closedInSend>>

\* mutant: a send without the stop case
SendStopNever == FALSE

\* mutant: a send that returns without a receiver (a buffered channel)
SendStopAlways == TRUE

\* select { ... case <-w.stop: }: the send is given up
SendStopReady == stopClosed

Abandon ==
    /\ pc = "send"
    /\ SendStopReady
    /\ history' = Record(history, Pending)
    /\ emitted' = Count(emitted, Pending)
    /\ frame' = [frame EXCEPT !.idx = frame.idx + 1, !.fate = "abandoned"]
    /\ pc' = AfterSend(frame.idx)
    /\ UNCHANGED <<trackedFiles, tracked, stopClosed, wg, todo, closePc,
                   quiet, closedInSend>>

\* mutant: an error makes tick() return
AfterIterationReturn(td, f) ==
    IF td = {} \/ (\E i \in DOMAIN f.sends : f.sends[i].chan = "Errors")
    THEN "select"
    ELSE "range"

\* the end of an iteration, by continue or by reaching the end of the body:
\* the next entry, or the return of tick() to the select of loop()
AfterIteration(td, f) == IF td = {} THEN "select" ELSE "range"

\* w.tracked[oldState.path] = newState, or continue; then the next entry,
\* or the return of tick() to the select of loop()
Store ==
    /\ pc = "store"
    /\ tracked' = IF frame.store
                  THEN [tracked EXCEPT ![frame.oldState.path] = frame.newState]
                  ELSE tracked
    /\ frame' = NoFrame
    /\ pc' = AfterIteration(todo, frame)
    /\ emitted' = IF todo = {} THEN [f \in DOMAIN emitted |-> 0] ELSE emitted
    /\ UNCHANGED <<trackedFiles, stopClosed, wg, todo, closePc, history,
                   quiet, closedInSend>>

(***************************************************************************)
(* Close(): close(w.stop); w.wg.Wait()                                     *)
(***************************************************************************)
CloseStop ==
    /\ closePc = "idle"
    /\ stopClosed' = TRUE
    /\ closePc' = "wait"
    /\ closedInSend' = (pc = "send")
    /\ UNCHANGED <<trackedFiles, tracked, wg, pc, todo, frame, history,
                   emitted, quiet>>

\* mutant: Close() does not wait for the goroutine
WaitDoneAtOnce == TRUE

\* w.wg.Wait() returns
WaitDone == wg = 0

CloseReturn ==
    /\ closePc = "wait"
    /\ WaitDone
    /\ closePc' = "returned"
    /\ UNCHANGED <<trackedFiles, tracked, stopClosed, wg, pc, todo, frame,
                   history, emitted, quiet, closedInSend>>

\* mutant: Close() is guarded (a sync.Once), a second call closes nothing
CloseGuarded == FALSE

\* close(w.stop) on a channel that is closed already panics
ClosePanics == stopClosed

\* Close() called again once the first call has returned: close(w.stop),
\* and w.wg.Wait() when close returned
CloseAgain ==
    /\ closePc = "returned"
    /\ closePc' = IF ClosePanics THEN "panic" ELSE "wait"
    /\ stopClosed' = TRUE
    /\ UNCHANGED <<trackedFiles, tracked, wg, pc, todo, frame, history,
                   emitted, quiet, closedInSend>>

Next ==
    \/ TickStart
    \/ LoopStop
    \/ \E p \in DOMAIN tracked : Stat(p)
    \/ Receive("Events")
    \/ Receive("Errors")
    \/ Abandon
    \/ Store
    \/ CloseStop
    \/ CloseReturn
    \/ CloseAgain

Spec == Init /\ [][Next]_vars

(***************************************************************************)
(* Scheduling.  The goroutine running loop() and the caller of Close() are *)
(* scheduled as long as they can take a step; a select with several ready  *)
(* cases picks one at random, so a case that is ready at every visit of    *)
(* the select is taken in the end.  Nothing obliges the consumer to        *)
(* receive, the ticker to fire or the caller to call Close().              *)
(***************************************************************************)
\* the steps of tick() that wait for nobody
TickStep == (\E p \in DOMAIN tracked : Stat(p)) \/ Abandon \/ Store

Fairness ==
    /\ WF_vars(TickStep)
    /\ SF_vars(LoopStop)
    /\ WF_vars(CloseReturn)

LiveSpec == Init /\ [][Next]_vars /\ Fairness

\* the same, with a ticker that keeps firing and a consumer that receives
\* what is sent on either channel
ConsumerFairness ==
    /\ WF_vars(TickStart)
    /\ WF_vars(Receive("Events"))
    /\ WF_vars(Receive("Errors"))

ConsumerSpec == Init /\ [][Next]_vars /\ Fairness /\ ConsumerFairness

(***************************************************************************)
(* Properties.                                                             *)
(***************************************************************************)
\* the goroutine is inside the iteration for one entry
InIteration == pc \in {"send", "store"}
\* the goroutine is handing an event to sendEvent
SendingEvent == pc = "send" /\ Pending.chan = "Events"
\* the events among the sends of the iteration under way
EventsOf(sends) == {i \in DOMAIN sends : sends[i].chan = "Events"}
\* what the iteration under way was told
SawNotExist == IsNotExist(frame.sys.lstat.err)
SawFile == frame.sys.lstat.err = NoErr /\ ~frame.sys.lstat.info.link
SawLink == frame.sys.lstat.err = NoErr /\ frame.sys.lstat.info.link
SawTarget == SawLink /\ frame.sys.readlink.err = NoErr /\ frame.sys.stat.err = NoErr

\* C1: the watcher never emits two Remove events in a row for one path: a
\* Remove event is never handed to sendEvent when the last event of that
\* path that carried Create or Remove carried Remove.
C1_NoRemoveAfterRemove ==
    (SendingEvent /\ Has(Pending.op, Remove)) => history[Pending.name] # "R"

\* C2: in one cycle at most one event is sent for each tracked path: the
\* events of the cycle so far and the events the iteration under way has
\* yet to send are together at most one per path.
C2_OneEventPerPathPerCycle ==
    \A p \in DOMAIN tracked :
        emitted[p]
          + (IF InIteration /\ frame.oldState.path = p
             THEN Cardinality({i \in EventsOf(frame.sends) : i >= frame.idx})
             ELSE 0) <= 1

C2_Witness ==
    /\ pc = "store"
    /\ frame.fate = "received"
    /\ SawTarget
    /\ frame.oldState.targetInfo.exists
    /\ frame.oldState.target # frame.newState.target
    /\ frame.oldState.targetInfo.size # frame.newState.targetInfo.size
    /\ emitted[PathS] = 1

\* C3: every event carries, as its Name, one of the paths given to New; an
\* event about a symlink carries the tracked path, not the resolved target.
C3_EventNameIsTrackedPath ==
    InIteration =>
        \A i \in EventsOf(frame.sends) :
            /\ frame.sends[i].name \in Range(trackedFiles)
            /\ frame.sends[i].name = frame.oldState.path
            /\ SawLink => frame.sends[i].name # frame.newState.target

C3_Witness ==
    /\ SendingEvent
    /\ SawTarget
    /\ Pending.name = PathS
    /\ frame.newState.target = MkPath("/d", "a")

\* C4: Close() returns only once loop() has returned, and from then on the
\* goroutine takes no step: no send, no cycle, no change of the registry.
C4_CloseReturnsAfterLoop ==
    [][closePc' = "returned" =>
          /\ pc = "done"
          /\ wg = 0
          /\ UNCHANGED <<pc, wg, tracked, todo, frame, history, emitted, quiet>>]_vars

C4_Witness ==
    /\ closePc = "returned"
    /\ closedInSend
    /\ \E p \in DOMAIN tracked : tracked[p].info.exists

\* C5: once Close() has closed the stop channel it returns in the end,
\* wherever the goroutine was (waiting in the select of loop(), in the
\* middle of a cycle, or blocked in a send), and whether or not the
\* consumer ever receives.
C5_CloseEventuallyReturns == (closePc = "wait") ~> (closePc = "returned")

\* Close() was called during a blocked send, nothing was ever received, and
\* Close() has returned
C5_Witness ==
    /\ closePc = "returned"
    /\ closedInSend
    /\ quiet
    /\ pc = "done"

\* C6: while the stop channel is open, a send that is under way ends only
\* by the consumer receiving that message; until then the goroutine makes
\* no system call and the registry is what it was when the iteration read
\* its entry.
C6_Backpressure ==
    [][(pc = "send" /\ ~stopClosed) =>
          /\ tracked[frame.oldState.path] = frame.oldState
          /\ \/ UNCHANGED <<pc, frame, tracked, todo, history, emitted>>
             \/ /\ frame'.fate = "received"
                /\ frame'.idx = frame.idx + 1
                /\ frame'.sends = frame.sends
                /\ history' = Record(history, Pending)
                /\ ~quiet'
                /\ UNCHANGED <<tracked, todo>>]_vars

\* an error was received, and the iteration goes on with the registry
\* still untouched
C6_Witness ==
    /\ pc = "store"
    /\ ~stopClosed
    /\ frame.fate = "received"
    /\ frame.sends[1].chan = "Errors"
    /\ todo # {}

\* C7: for a path that is only ever absent or a regular file, the events
\* are Create (or Create|Write), then any number of Write, then Remove,
\* again and again; a deletion sends Remove and empties the entry.
C7_RegularFilePattern ==
    /\ (SendingEvent /\ Pending.name = PathF) =>
          /\ Pending.op \in {Create, BitOr(Create, Write), Write, Remove}
          /\ Has(Pending.op, Create) => history[PathF] \in {"none", "R"}
          /\ ~Has(Pending.op, Create) => history[PathF] = "C"
    /\ (InIteration /\ frame.oldState.path = PathF /\ SawNotExist
            /\ frame.oldState.info.exists) =>
          /\ frame.sends = <<Event(PathF, Remove)>>
          /\ frame.store
          /\ frame.newState = EmptyState(PathF)
    /\ (~InIteration /\ PathF \in DOMAIN tracked) =>
          (tracked[PathF].info.exists <=> history[PathF] = "C")

\* the file is back after a deletion and Create is sent for it
C7_Witness ==
    /\ SendingEvent
    /\ Pending.name = PathF
    /\ Has(Pending.op, Create)
    /\ history[PathF] = "R"

\* C8: a path with no stored info that is seen as a file that is not a
\* symlink gets exactly one event: Create|Write when the size is above
\* zero, Create when it is zero.
C8_NewFile ==
    (InIteration /\ ~frame.oldState.info.exists /\ SawFile) =>
        frame.sends =
            <<Event(frame.oldState.path,
                    IF frame.sys.lstat.info.size > 0 THEN Create + Write
                    ELSE Create)>>

C8_Witness ==
    /\ SendingEvent
    /\ ~frame.oldState.info.exists
    /\ SawFile
    /\ frame.sys.lstat.info.size > 0
    /\ Pending.op = Create + Write

\* C9: a path with stored info that is seen as a file that is not a
\* symlink gets exactly one Write event when the modification time or the
\* size differs from the stored one, and no event when both are equal.
C9_FileModified ==
    (InIteration /\ frame.oldState.info.exists /\ SawFile) =>
        frame.sends =
            IF \/ frame.sys.lstat.info.mtime # frame.oldState.info.mtime
               \/ frame.sys.lstat.info.size # frame.oldState.info.size
            THEN <<Event(frame.oldState.path, Write)>>
            ELSE <<>>

\* the size alone has changed
C9_Witness ==
    /\ SendingEvent
    /\ frame.oldState.info.exists
    /\ ~frame.oldState.info.link
    /\ SawFile
    /\ frame.sys.lstat.info.mtime = frame.oldState.info.mtime
    /\ frame.sys.lstat.info.size # frame.oldState.info.size
    /\ Pending.op = Write

Repointed ==
    /\ InIteration
    /\ frame.oldState.targetInfo.exists
    /\ SawTarget
    /\ ResolveTarget(frame.oldState.path, frame.sys.readlink.text)
          # frame.oldState.target
\* Readlink succeeded and Stat reported that the target does not exist
SawTargetGone ==
    /\ SawLink
    /\ frame.sys.readlink.err = NoErr
    /\ IsNotExist(frame.sys.stat.err)

SawLstatError == frame.sys.lstat.err # NoErr /\ ~IsNotExist(frame.sys.lstat.err)

\* C13: when Lstat fails with an error other than not-found, that error is
\* sent on Errors, no event is sent for the path, and no step of the
\* iteration changes the registry.
C13_LstatError ==
    [][(InIteration /\ SawLstatError) =>
          /\ frame.sends = <<Error(frame.oldState.path, frame.sys.lstat.err)>>
          /\ tracked' = tracked]_vars

\* the error of a path with a stored entry was received and the iteration
\* is about to end
C13_Witness ==
    /\ pc = "store"
    /\ SawLstatError
    /\ frame.fate = "received"
    /\ frame.oldState.info.exists
    /\ tracked[frame.oldState.path] = frame.oldState

\* the iteration under way sends an error
SendsError ==
    InIteration /\ \E i \in DOMAIN frame.sends : frame.sends[i].chan = "Errors"

\* C14: an error on one path does not end the poll loop: loop() returns
\* only once the stop channel is closed; tick() returns to the select only
\* once no entry is left to visit; every entry the cycle had yet to visit
\* when the error was sent is visited; and cycles over the whole registry
\* keep starting for as long as the stop channel is open.
C14_ErrorDoesNotStopPolling ==
    /\ [](pc = "done" => stopClosed)
    /\ [](pc \in {"select", "done"} => todo = {})
    /\ \A p \in {PathF, PathS} :
          (SendsError /\ p \in todo) ~> (InIteration /\ frame.oldState.path = p)
    /\ []<>(stopClosed \/ (pc = "range" /\ todo = DOMAIN tracked))

\* the error of one path was received while another path, with a live
\* target, is still to be visited in the cycle
C14_Witness ==
    /\ pc = "store"
    /\ SendsError
    /\ frame.fate = "received"
    /\ ~stopClosed
    /\ frame.oldState.path = PathF
    /\ todo = {PathS}
    /\ tracked[PathS].targetInfo.exists

\* the entry of a path once an iteration with outcome out has ended
EntryAfter(oldState, out) == IF out.store THEN out.newState ELSE oldState

\* C15: a cycle that is told what the cycle before was told (the same
\* results of Lstat, Readlink and Stat) sends no event and leaves the entry
\* as the cycle before left it, whatever the entry was before.
C15_Idempotent ==
    InIteration =>
        LET after == EntryAfter(frame.oldState, frame)
            again == TickPath(after, frame.sys)
        IN /\ EventsOf(again.sends) = {}
           /\ EntryAfter(after, again) = after

\* the first of the two cycles reports that the target of a symlink is
\* gone and changes the entry
C15_Witness ==
    /\ SendingEvent
    /\ SawTargetGone
    /\ frame.oldState.targetInfo.exists
    /\ Pending.op = Remove
    /\ EntryAfter(frame.oldState, frame) # frame.oldState

\* the iteration under way is on a symlink whose target was reported
\* removed and has not been reported since
TargetWasRemoved ==
    /\ InIteration
    /\ frame.oldState.info.exists /\ frame.oldState.info.link
    /\ ~frame.oldState.targetInfo.exists
    /\ history[frame.oldState.path] = "R"

\* C16, as the comment on type Watcher states it: once the target of a
\* tracked symlink was reported removed, a cycle that resolves the link
\* again and finds that the new target does not exist sends an error on
\* Errors.
C16_MissingNewTargetIsAnError ==
    (TargetWasRemoved /\ SawTargetGone) =>
        \E i \in DOMAIN frame.sends :
            /\ frame.sends[i].chan = "Errors"
            /\ frame.sends[i].name = frame.oldState.path

\* os.Stat of the resolved target failed, and not because it does not exist
SawTargetStatError ==
    /\ SawLink
    /\ frame.sys.readlink.err = NoErr
    /\ frame.sys.stat.err # NoErr
    /\ ~IsNotExist(frame.sys.stat.err)

\* C17, as stated: when os.Stat of the resolved target fails for a reason
\* other than the target not existing, the failure is sent on Errors and no
\* Remove event is sent for it.
C17_TargetStatErrorIsSent ==
    (InIteration /\ SawTargetStatError) =>
        frame.sends = <<Error(frame.oldState.path, frame.sys.stat.err)>>

\* Readlink of a path that Lstat reported as a symlink failed
SawReadlinkError == SawLink /\ frame.sys.readlink.err # NoErr

\* C18: when Readlink of a tracked symlink fails, the iteration sends
\* nothing, neither an event nor an error, and no step of it changes the
\* registry: info, target and targetInfo of the entry stay as they were.
C18_ReadlinkError ==
    [][(InIteration /\ SawReadlinkError) =>
          /\ frame.sends = <<>>
          /\ tracked' = tracked]_vars

\* the iteration that skipped over a failed Readlink is about to end, and
\* the entry still holds the target seen by an earlier cycle
C18_Witness ==
    /\ pc = "store"
    /\ SawReadlinkError
    /\ frame.oldState.targetInfo.exists
    /\ tracked[frame.oldState.path] = frame.oldState

\* the target the iteration under way resolved
SeenTarget == ResolveTarget(frame.oldState.path, frame.sys.readlink.text)

StateOk(st) ==
    /\ ~st.info.exists => (st.target = EmptyPath /\ ~st.targetInfo.exists)
    /\ st.targetInfo.exists => (st.info.exists /\ st.info.link)

\* C20: every entry of the registry, and every entry about to be stored,
\* has an empty target and no targetInfo when it has no info, and has a
\* targetInfo only when its info is that of a symlink.
C20_StateInvariant ==
    /\ \A p \in DOMAIN tracked : StateOk(tracked[p])
    /\ (InIteration /\ frame.store) => StateOk(frame.newState)

\* a path stored as a symlink with a target is seen as a regular file, and
\* the entry about to be stored has lost the target
C20_Witness ==
    /\ pc = "store"
    /\ frame.store
    /\ SawFile
    /\ frame.oldState.targetInfo.exists
    /\ ~frame.newState.targetInfo.exists
    /\ frame.newState.target = EmptyPath

\* C21: the keys of the registry are the distinct paths given to New, a
\* path given twice having one entry, and they never change; the path of
\* an entry is its key; and the registry changes only by the one
\* assignment that ends an iteration, which replaces info, target and
\* targetInfo of that iteration's entry together by those of newState.
C21_RegistryShape ==
    /\ [](/\ DOMAIN tracked = Range(trackedFiles)
          /\ \A p \in DOMAIN tracked : tracked[p].path = p)
    /\ [][tracked' # tracked =>
             /\ pc = "store" /\ frame.store
             /\ pc' # "store"
             /\ frame.newState.path = frame.oldState.path
             /\ tracked' = [tracked EXCEPT ![frame.oldState.path] = frame.newState]]_vars

\* New was given the same path twice, and its one entry has been replaced
\* by that of a symlink with a target
C21_Witness ==
    /\ trackedFiles = <<PathS, PathS>>
    /\ Cardinality(DOMAIN tracked) = 1
    /\ tracked[PathS].targetInfo.exists
    /\ tracked[PathS].target # EmptyPath
    /\ pc = "select"

\* C22, as stated: once the stop channel is closed, no message is
\* delivered to the consumer any more and no new cycle begins, whatever
\* else is ready at that moment.
C22_StopWinsEveryRace ==
    [][stopClosed =>
          /\ ~(pc = "send" /\ frame'.idx # frame.idx /\ frame'.fate = "received")
          /\ ~(pc = "select" /\ pc' = "range")]_vars

\* C22, amended: once the stop channel is closed the goroutine never waits
\* for the consumer or the ticker again (a send can be given up, the
\* select of loop() can return, every other step of tick() is free to
\* run), and loop() returns in the end.
C22_StopEndsLoop ==
    /\ []((stopClosed /\ pc = "send") => ENABLED Abandon)
    /\ []((stopClosed /\ pc = "select") => ENABLED LoopStop)
    /\ []((stopClosed /\ pc \in {"range", "store"}) => ENABLED TickStep)
    /\ stopClosed ~> (pc = "done")

\* the stop channel was closed during a blocked send, nothing was ever
\* delivered, loop() has returned and Close() is about to
C22_Witness ==
    /\ pc = "done"
    /\ closePc = "wait"
    /\ closedInSend
    /\ quiet
    /\ wg = 0

\* C23: the first call of Close() closes the stop channel and goes on to
\* wait; a call of Close() after the first has returned panics on closing
\* the closed channel, and nothing makes it return.
C23_SecondCloseFails ==
    [][/\ (closePc = "idle" /\ closePc' # "idle") =>
              (~stopClosed /\ stopClosed' /\ closePc' = "wait")
       /\ (closePc = "returned" /\ closePc' # "returned") =>
              (stopClosed /\ pc = "done" /\ closePc' = "panic")
       /\ closePc = "panic" => closePc' = "panic"]_vars

\* the second call of Close() has panicked, after a first call made
\* during a blocked send
C23_Witness ==
    /\ closePc = "panic"
    /\ closedInSend
    /\ pc = "done"

\* C24, as stated: no event carrying Create is handed to sendEvent for a
\* path whose last event carrying Create or Remove carried Create, a path
\* that changes between regular file and symlink included.
C24_NoCreateAfterCreate ==
    (SendingEvent /\ Has(Pending.op, Create)) => history[Pending.name] # "C"

\* none of Lstat, Readlink and Stat failed with an error other than
\* not-found in the iteration under way
SawNoHardError ==
    /\ frame.sys.lstat.err = NoErr \/ IsNotExist(frame.sys.lstat.err)
    /\ frame.sys.readlink.err = NoErr
    /\ frame.sys.stat.err = NoErr \/ IsNotExist(frame.sys.stat.err)

\* C25, as stated, for a filesystem that from some cycle on answers every
\* call the same way: at the end of the iteration of that cycle the entry
\* matches what was seen (info is nil exactly when the path is absent and,
\* for a symlink, targetInfo is nil exactly when the target is absent), an
\* iteration given the same answers again sends nothing and leaves the
\* entry alone, and a path seen as a regular file or as a symlink with a
\* target has had an event carrying Create, so that it is not a path
\* without any Create or Remove event so far.
C25_Converges ==
    (pc = "store" /\ ~stopClosed /\ SawNoHardError) =>
        LET after == EntryAfter(frame.oldState, frame)
            again == TickPath(after, frame.sys)
        IN /\ after.info.exists <=> ~SawNotExist
           /\ SawLink => (after.targetInfo.exists <=> SawTarget)
           /\ again.sends = <<>>
           /\ EntryAfter(after, again) = after
           /\ (SawFile \/ SawTarget) => history[frame.oldState.path] # "none"

\* the values an Op may take
ValidOps == {Create, BitOr(Create, Write), Write, Remove}

\* C26: the Op of every event an iteration sends is Create, Create|Write,
\* Write or Remove: never empty, and Remove never together with Create or
\* Write.
C26_OpValues ==
    InIteration =>
        \A i \in EventsOf(frame.sends) :
            /\ frame.sends[i].op \in ValidOps
            /\ frame.sends[i].op # 0
            /\ Has(frame.sends[i].op, Remove) =>
                  (~Has(frame.sends[i].op, Create) /\ ~Has(frame.sends[i].op, Write))

\* the empty target of a symlink is reported with Create alone
C26_Witness ==
    /\ SendingEvent
    /\ SawTarget
    /\ frame.sys.stat.info.size = 0
    /\ Pending.op = Create
    /\ ~Has(Pending.op, Write)

====
